---- MODULE Spec2Model ----
(***************************************************************************)
(* State-machine model of the PDF annotation overlay:                      *)
(*   src/componets/pdf/pdf_viewer.tsx  (PdfViewerDisplay: page registry)   *)
(*   src/componets/pdf/pdf_editor.tsx  (PdfEditor: canvases, annotation    *)
(*                                      store, tool gestures, export)      *)
(* Every action is one event handler run to completion, together with the  *)
(* React render and effect pass it triggers (single-threaded event loop).  *)
(***************************************************************************)
EXTENDS Integers, Sequences, FiniteSets, TLC

(***************************************************************************)
(* Bounds of the model                                                     *)
(***************************************************************************)
\* most points the whole annotation store records
MaxPoints == 3
\* exports started in one run
MaxExports == 1

\* records on one page of a store handed to redraw
MaxRedrawLen == 2
\* pages of the loaded document
NumDocPages == 2

(***************************************************************************)
(* Program constants                                                       *)
(***************************************************************************)
\* default maxAttempts of pollForViewerAndAttachObserver
MaxAttempts == 50
\* blur commit threshold of the mouseup branch
BlurThreshold == 5

(***************************************************************************)
(* Small helpers: JS Map / object as a TLA+ function with a finite domain  *)
(***************************************************************************)
EmptyMap == [k \in {} |-> 0]

Has(m, k) == k \in DOMAIN m

MapSet(m, k, v) == [j \in DOMAIN m \cup {k} |-> IF j = k THEN v ELSE m[j]]

MapDel(m, ks) == [j \in DOMAIN m \ ks |-> m[j]]

Min2(x, y) == IF x <= y THEN x ELSE y

Max2(x, y) == IF x >= y THEN x ELSE y

Abs(x) == IF x < 0 THEN -x ELSE x

\* null of a coordinate ref
Null == <<>>

(***************************************************************************)
(* The renderer's DOM: page containers (.rpv-core__inner-page)             *)
(***************************************************************************)
\* page container elements the renderer may mount, in document order
ElOrder == <<"a", "b", "g", "x", "h">>

Els == {ElOrder[k] : k \in 1..Len(ElOrder)}

\* aria-label of each container, as the characters of the string
AriaLabel(e) ==
  CASE e = "a" -> <<"P", "a", "g", "e", " ", "1">>
    [] e = "b" -> <<"P", "a", "g", "e", " ", "2">>
    [] e = "g" -> <<"P", "a", "g", "e", " ", "1", " ">>
    [] e = "h" -> <<"P", "a", "g", "e", " ", "0", "x", "2">>
    [] OTHER   -> <<"P", "a", "g", "e", " ", "x">>

\* whether the container holds a .rpv-core__page-layer child
HasPageLayer(e) == e # "b"

\* pixel boxes (offsetWidth, offsetHeight) the renderer lays pages out in
Boxes == {<<8, 8>>, <<16, 12>>}

\* size of a freshly created canvas element before it is sized
DefaultBox == <<300, 150>>

(***************************************************************************)
(* String functions used on aria-labels                                    *)
(***************************************************************************)
PagePrefix == <<"P", "a", "g", "e", " ">>

\* ariaLabel.startsWith('Page ')
StartsWithPage(s) == Len(s) >= Len(PagePrefix) /\ SubSeq(s, 1, Len(PagePrefix)) = PagePrefix

\* ariaLabel.replace('Page ', '') of a string that starts with 'Page '
StripPage(s) == SubSeq(s, Len(PagePrefix) + 1, Len(s))

IsSpace(c) == c = " "

RECURSIVE TrimLeft(_)
TrimLeft(s) == IF s # <<>> /\ IsSpace(Head(s)) THEN TrimLeft(Tail(s)) ELSE s

RECURSIVE TrimRight(_)
TrimRight(s) ==
  IF s # <<>> /\ IsSpace(s[Len(s)]) THEN TrimRight(SubSeq(s, 1, Len(s) - 1)) ELSE s

\* String.prototype.trim
Trim(s) == TrimRight(TrimLeft(s))

Digits == {"0", "1", "2", "3", "4", "5", "6", "7", "8", "9"}

DigitVal(c) ==
  CASE c = "0" -> 0 [] c = "1" -> 1 [] c = "2" -> 2 [] c = "3" -> 3 [] c = "4" -> 4
    [] c = "5" -> 5 [] c = "6" -> 6 [] c = "7" -> 7 [] c = "8" -> 8 [] OTHER -> 9

RECURSIVE DigitPrefix(_, _, _)
\* value of the longest run of digits at the front of s; <<>> when there is none
DigitPrefix(s, acc, seen) ==
  IF s # <<>> /\ Head(s) \in Digits
    THEN DigitPrefix(Tail(s), 10 * acc + DigitVal(Head(s)), TRUE)
    ELSE IF seen THEN <<acc>> ELSE <<>>

\* parseInt(s, 10): <<n>>, or <<>> for NaN
ParseInt(s) ==
  LET t == TrimLeft(s) IN
  IF t # <<>> /\ Head(t) = "-"
    THEN LET r == DigitPrefix(Tail(t), 0, FALSE) IN IF r = <<>> THEN <<>> ELSE <<-r[1]>>
    ELSE IF t # <<>> /\ Head(t) = "+" THEN DigitPrefix(Tail(t), 0, FALSE)
    ELSE DigitPrefix(t, 0, FALSE)

HexDigits == Digits \cup {"a", "b", "c", "d", "e", "f"}

HexVal(c) ==
  CASE c = "a" -> 10 [] c = "b" -> 11 [] c = "c" -> 12 [] c = "d" -> 13 [] c = "e" -> 14
    [] c = "f" -> 15 [] OTHER -> DigitVal(c)

RECURSIVE HexPrefix(_, _, _)
\* value of the longest run of hexadecimal digits at the front of s
HexPrefix(s, acc, seen) ==
  IF s # <<>> /\ Head(s) \in HexDigits
    THEN HexPrefix(Tail(s), 16 * acc + HexVal(Head(s)), TRUE)
    ELSE IF seen THEN <<acc>> ELSE <<>>

\* the digits of parseInt(s) with no radix: hexadecimal after 0x, else decimal
AutoPrefix(t) ==
  IF Len(t) >= 2 /\ t[1] = "0" /\ t[2] \in {"x", "X"}
    THEN HexPrefix(SubSeq(t, 3, Len(t)), 0, FALSE)
    ELSE DigitPrefix(t, 0, FALSE)

\* parseInt(s) with no radix: <<n>>, or <<>> for NaN
ParseIntAuto(s) ==
  LET t == TrimLeft(s) IN
  IF t # <<>> /\ Head(t) = "-"
    THEN LET r == AutoPrefix(Tail(t)) IN IF r = <<>> THEN <<>> ELSE <<-r[1]>>
    ELSE IF t # <<>> /\ Head(t) = "+" THEN AutoPrefix(Tail(t))
    ELSE AutoPrefix(t)

\* pdf_viewer.tsx: the page index handleMutations gives a label, <<i>>, or
\* <<>> when the label is dropped (pageIndex stays -1)
ViewerParse(s) ==
  IF StartsWithPage(s)
    THEN LET n == ParseInt(Trim(StripPage(s))) IN
         IF n # <<>> /\ n[1] >= 1 THEN <<n[1] - 1>> ELSE <<>>
    ELSE <<>>

\* pdf_editor.tsx: the page index handleToolInteraction gives a label,
\* <<i>>, or <<>> when it is -1 (early return) or NaN (no Map key is NaN)
EditorParse(s) ==
  IF StartsWithPage(s)
    THEN LET n == ParseIntAuto(StripPage(s)) IN
         IF n = <<>> \/ n[1] - 1 = -1 THEN <<>> ELSE <<n[1] - 1>>
    ELSE <<>>

\* the two parses of each container's label (evaluated once)
ViewerIndexOf == [e \in Els |-> ViewerParse(AriaLabel(e))]

EditorIndexOf == [e \in Els |-> EditorParse(AriaLabel(e))]

ViewerPageIndex(e) == ViewerIndexOf[e]

EditorPageIndex(e) == EditorIndexOf[e]

(***************************************************************************)
(* State                                                                   *)
(***************************************************************************)
VARIABLES
  \* --- the renderer (environment) ---
  rootPresent,        \* .rpv-default-layout__container is in the document
  domPages,           \* the mounted .rpv-core__inner-page containers
  pageBox,            \* offsetWidth/offsetHeight of the mounted containers
  textPE,             \* style.pointerEvents of each container's text layer
  \* --- PdfViewerDisplay ---
  pollTimer,          \* attempt number of the pending poll call, or NoTimer
  observing,          \* observerRef.current is attached
  sentRefs,           \* currentRefsSentToParent.current
  pollFailed,         \* the "Failed to find" error was logged
  \* --- PdfEditor ---
  activeTool,         \* useState activeTool
  selectedText,       \* useState selectedText
  pageContainerRefs,  \* pageContainerRefs.current
  refsStale,          \* pageContainerRefs.current is another object than at the last effect run
  canvasRefs,         \* canvasRefs.current: page index -> canvas element
  contextRefs,        \* keys of contextRefs.current
  annotationsRef,     \* annotationsRef.current: page index -> annotation array
  isDrawing,          \* isDrawingRef.current
  startCoords,        \* startCoordsRef.current
  currentCoords,      \* currentCoordsRef.current
  \* --- handleDownload (one asynchronous run) ---
  expPc,              \* the await the run is suspended at
  expI,               \* loop variable i
  expDoc,             \* pdfDoc: page index -> layers drawn onto the page
  expRaster,          \* the canvas bitmap taken by toDataURL for page i
  expSeen,            \* history: page -> the loop found annotations on it when it got there
  saved,              \* files handed to saveAs, in order
  exports,            \* exports started
  \* --- history (read by no handler) ---
  lastEvent,          \* "mouseup" after a mouseup inside the viewer container, "mouseleave"
                      \* after the pointer left it during a drag, else "other"
  stroke,             \* the erase gesture in progress or just released, or NoStroke
  redrawn,            \* the redraw calls just made in a row on one page, or NoRedraw
  pressPage,          \* <<page index>> of the latest press the handler recorded, or <<>>
  step,               \* what the last step did: prompted, emitted a mapping, discarded sequences
  tornDown            \* the cleanup of the polling effect of PdfViewerDisplay has run

envVars == <<rootPresent, domPages, pageBox, textPE>>

regVars == <<pollTimer, observing, sentRefs, pollFailed>>

toolVars == <<activeTool, selectedText>>

refVars == <<pageContainerRefs, refsStale>>

canvasVars == <<canvasRefs, contextRefs>>

gestureVars == <<isDrawing, startCoords, currentCoords>>

expVars == <<expPc, expI, expDoc, expRaster, expSeen, saved, exports>>

histVars == <<lastEvent, stroke, redrawn, pressPage, step, tornDown>>

\* the program's state
progVars == <<envVars, regVars, toolVars, refVars, canvasVars, annotationsRef, gestureVars, expVars>>

vars == <<progVars, histVars>>

NoStroke == <<>>

NoRedraw == <<>>

\* a step that neither prompted, nor emitted a mapping, nor discarded a sequence
NoStep == [prompted |-> FALSE, emitted |-> FALSE, discarded |-> {}]

\* history after a step that is no pointer event and no redraw call
HistStep(s) ==
  /\ lastEvent' = "other"
  /\ stroke' = NoStroke
  /\ redrawn' = NoRedraw
  /\ pressPage' = pressPage
  /\ tornDown' = tornDown
  /\ step' = s

HistOther == HistStep(NoStep)

\* the page indices whose sequence a step removed from the store
Discarded(anns, after) == DOMAIN anns \ DOMAIN after

NoTimer == -1

Tools == {"none", "blur", "erase", "addText"}

\* isDrawingTool of handleToolChange and of the canvas effect
IsDrawingTool(tool) == tool = "blur" \/ tool = "erase" \/ tool = "addText"

(***************************************************************************)
(* Drawing: a canvas bitmap is the ordered list of paint operations        *)
(* applied since it was last cleared                                       *)
(***************************************************************************)
\* context.fillRect paints nothing when the width or the height is zero
drawBlurOverlay(px, startX, startY, endX, endY) ==
  LET x == Min2(startX, endX)
      y == Min2(startY, endY)
      width == Abs(startX - endX)
      height == Abs(startY - endY)
  IN IF width = 0 \/ height = 0 THEN px
     ELSE Append(px, [op |-> "fillRect", style |-> "rgba(50, 50, 50, 0.85)",
                      geom |-> <<x, y, width, height>>])

drawText(px, x, y, text) ==
  Append(px, [op |-> "fillText", style |-> "blue", geom |-> <<x, y, text>>])

drawAnnotation(px, annotation) ==
  IF annotation.type = "blur"
    THEN drawBlurOverlay(px, annotation.data.startX, annotation.data.startY,
                         annotation.data.endX, annotation.data.endY)
  ELSE IF annotation.type = "erase"
    THEN Append(px, [op |-> "stroke", style |-> "white", geom |-> annotation.data.path])
  ELSE IF annotation.type = "addText"
    THEN drawText(px, annotation.data.x, annotation.data.y, annotation.data.text)
  ELSE px

RECURSIVE Replay(_, _)
\* pageAnnotations.forEach(ann => drawAnnotation(pageIndex, ann)) onto bitmap px
Replay(px, pageAnnotations) ==
  IF pageAnnotations = <<>> THEN px
  ELSE Replay(drawAnnotation(px, Head(pageAnnotations)), Tail(pageAnnotations))

\* annotationsRef.current.get(pageIndex) || []
PageAnnotations(anns, pageIndex) == IF Has(anns, pageIndex) THEN anns[pageIndex] ELSE <<>>

\* variant: redraw without context.clearRect
RedrawnBitmapMutant(px, anns, pageIndex) == Replay(px, PageAnnotations(anns, pageIndex))

\* the bitmap of page pageIndex after redrawPageAnnotations(pageIndex)
RedrawnBitmap(px, anns, pageIndex) == Replay(<<>>, PageAnnotations(anns, pageIndex))

\* redrawPageAnnotations(pageIndex): the canvases after the call
redrawPageAnnotations(cv, ctx, anns, pageIndex) ==
  IF ~(pageIndex \in ctx) \/ ~Has(cv, pageIndex) THEN cv
  ELSE [cv EXCEPT ![pageIndex].px = RedrawnBitmap(cv[pageIndex].px, anns, pageIndex)]

(***************************************************************************)
(* The canvas lifecycle effect (useEffect of PdfEditor)                    *)
(***************************************************************************)
\* offsetWidth/offsetHeight of a container: 0 when it is not laid out
BoxOf(e) == IF e \in domPages THEN pageBox ELSE <<0, 0>>

\* targetParent: the page layer of the container, or the container itself
TargetParent(e) == IF HasPageLayer(e) THEN <<e, "layer">> ELSE <<e, "page">>

CanvasPointerEvents(tool) == IF IsDrawingTool(tool) THEN "auto" ELSE "none"

\* document.createElement('canvas'), appended to its parent
NewCanvas(e) ==
  [w |-> DefaultBox[1], h |-> DefaultBox[2], pe |-> "auto", parent |-> TargetParent(e), px |-> <<>>]

\* one iteration of currentKnownPageIndices.forEach: the canvas of pageIndex.
\* ctxFails: the page indices whose getContext('2d') returns null.
EffectCanvas(refs, cv, ctx, anns, tool, ctxFails, pageIndex) ==
  LET e == refs[pageIndex]
      created == ~Has(cv, pageIndex)
      base == IF created THEN NewCanvas(e) ELSE [cv[pageIndex] EXCEPT !.parent = TargetParent(e)]
      hasCtx == IF created THEN ~(pageIndex \in ctxFails) ELSE pageIndex \in ctx
  IN IF created /\ pageIndex \in ctxFails
       THEN base
       ELSE [base EXCEPT !.w = BoxOf(e)[1], !.h = BoxOf(e)[2],
                         !.pe = CanvasPointerEvents(tool),
                         !.px = IF hasCtx THEN RedrawnBitmap(<<>>, anns, pageIndex) ELSE <<>>]

\* variant: the effect discards the annotation sequence of every page whose
\* canvas it gives another size
EffectResizeMutant(refs, cv, ctx, anns, tool, ctxFails) ==
  LET known == DOMAIN refs
      vanished == DOMAIN cv \ known
      resized == {i \in known \cap DOMAIN cv :
                    <<cv[i].w, cv[i].h>> # <<BoxOf(refs[i])[1], BoxOf(refs[i])[2]>>}
  IN [cv   |-> [i \in known |-> EffectCanvas(refs, cv, ctx, anns, tool, ctxFails, i)],
      ctx  |-> (ctx \cup {i \in known \ DOMAIN cv : ~(i \in ctxFails)}) \ vanished,
      anns |-> MapDel(anns, vanished \cup resized)]

\* variant: the effect removes the canvas of a vanished index and keeps its
\* context and its annotation sequence
EffectKeepMutant(refs, cv, ctx, anns, tool, ctxFails) ==
  LET known == DOMAIN refs
  IN [cv   |-> [i \in known |-> EffectCanvas(refs, cv, ctx, anns, tool, ctxFails, i)],
      ctx  |-> ctx \cup {i \in known \ DOMAIN cv : ~(i \in ctxFails)},
      anns |-> anns]

\* variant: the effect removes the canvas of a vanished index and keeps its
\* annotation sequence
EffectMutant(refs, cv, ctx, anns, tool, ctxFails) ==
  LET known == DOMAIN refs
      vanished == DOMAIN cv \ known
  IN [cv   |-> [i \in known |-> EffectCanvas(refs, cv, ctx, anns, tool, ctxFails, i)],
      ctx  |-> (ctx \cup {i \in known \ DOMAIN cv : ~(i \in ctxFails)}) \ vanished,
      anns |-> anns]

\* the whole effect: [cv, ctx, anns] after it ran
Effect(refs, cv, ctx, anns, tool, ctxFails) ==
  LET known == DOMAIN refs
      vanished == DOMAIN cv \ known
  IN [cv   |-> [i \in known |-> EffectCanvas(refs, cv, ctx, anns, tool, ctxFails, i)],
      ctx  |-> (ctx \cup {i \in known \ DOMAIN cv : ~(i \in ctxFails)}) \ vanished,
      anns |-> MapDel(anns, vanished)]

\* a render of PdfEditor: the effect runs when one of its dependencies
\* [pageContainerRefs.current, activeTool, redrawPageAnnotations] changed
Render(cv, anns, tool, toolChanged, ctxFails) ==
  IF refsStale \/ toolChanged
    THEN Effect(pageContainerRefs, cv, contextRefs, anns, tool, ctxFails)
    ELSE [cv |-> cv, ctx |-> contextRefs, anns |-> anns]

(***************************************************************************)
(* PdfViewerDisplay: handleMutations                                       *)
(***************************************************************************)
\* the mounted containers whose label parses to page index i
ElsOfIndex(pages, i) == {e \in pages : ViewerPageIndex(e) = <<i>>}

\* the last element of a set of containers in document order
LastInOrder(S) ==
  LET k == CHOOSE k \in 1..Len(ElOrder) :
             ElOrder[k] \in S /\ \A j \in 1..Len(ElOrder) : ElOrder[j] \in S => j <= k
  IN ElOrder[k]

\* newRefs after currentPageElements.forEach: a later element overwrites an
\* earlier one of the same index
NewRefs(pages) ==
  LET idx == {i \in 0..9 : ElsOfIndex(pages, i) # {}}
  IN [i \in idx |-> LastInOrder(ElsOfIndex(pages, i))]

RECURSIVE SortedKeys(_)
\* Object.keys(refs).sort() (page indices below 10: string order is numeric
\* order); join(',') of two such lists is equal iff the lists are
SortedKeys(S) ==
  IF S = {} THEN <<>>
  ELSE LET m == CHOOSE m \in S : \A j \in S : m <= j IN <<m>> \o SortedKeys(S \ {m})

\* variant: the registry emits whenever the recomputed mapping differs
handleMutationsMutant(pages, sent) ==
  [emit |-> NewRefs(pages) # sent, refs |-> NewRefs(pages)]

\* handleMutations: [emit, refs]: whether onPageContainerRefsChange is
\* called, and with which mapping
handleMutations(pages, sent) ==
  IF pages = {}
    THEN [emit |-> DOMAIN sent # {}, refs |-> EmptyMap]
    ELSE [emit |-> SortedKeys(DOMAIN NewRefs(pages)) # SortedKeys(DOMAIN sent),
          refs |-> NewRefs(pages)]

\* the observer callback on the document with containers `pages`, with the
\* call of handlePageContainerRefsChange (pdf_editor.tsx) it makes
ObserverCallback(pages) ==
  LET r == handleMutations(pages, sentRefs) IN
  IF r.emit
    THEN /\ sentRefs' = r.refs
         /\ pageContainerRefs' = r.refs
         /\ refsStale' = TRUE
    ELSE UNCHANGED <<sentRefs, pageContainerRefs, refsStale>>

\* whether a change of the document to pages makes the registry emit
Emits(pages) == observing /\ handleMutations(pages, sentRefs).emit

\* the registry reacts to a change of the document only while it observes
AfterDomChange(pages) ==
  IF observing THEN ObserverCallback(pages)
  ELSE UNCHANGED <<sentRefs, pageContainerRefs, refsStale>>

(***************************************************************************)
(* The renderer (environment)                                              *)
(***************************************************************************)
RootAppear ==
  /\ ~rootPresent
  /\ HistOther
  /\ rootPresent' = TRUE
  /\ UNCHANGED <<domPages, pageBox, textPE, regVars, toolVars, refVars, canvasVars,
                 annotationsRef, gestureVars, expVars>>

\* the renderer mounts container e, with a fresh text layer
PageMount(e) ==
  /\ rootPresent
  /\ HistStep([NoStep EXCEPT !.emitted = Emits(domPages \cup {e})])
  /\ e \notin domPages
  /\ domPages' = domPages \cup {e}
  /\ textPE' = [textPE EXCEPT ![e] = "auto"]
  /\ AfterDomChange(domPages')
  /\ UNCHANGED <<rootPresent, pageBox, pollTimer, observing, pollFailed, toolVars,
                 canvasVars, annotationsRef, gestureVars, expVars>>

\* the renderer removes container e (with whatever was appended to it)
PageUnmount(e) ==
  /\ e \in domPages
  /\ HistStep([NoStep EXCEPT !.emitted = Emits(domPages \ {e})])
  /\ domPages' = domPages \ {e}
  /\ AfterDomChange(domPages')
  /\ UNCHANGED <<rootPresent, pageBox, textPE, pollTimer, observing, pollFailed, toolVars,
                 canvasVars, annotationsRef, gestureVars, expVars>>

\* zoom: the renderer lays the mounted containers out in another box and
\* re-renders their layers
Resize(box) ==
  /\ domPages # {}
  /\ HistStep([NoStep EXCEPT !.emitted = Emits(domPages)])
  /\ box # pageBox
  /\ pageBox' = box
  /\ AfterDomChange(domPages)
  /\ UNCHANGED <<rootPresent, domPages, textPE, pollTimer, observing, pollFailed, toolVars,
                 canvasVars, annotationsRef, gestureVars, expVars>>

(***************************************************************************)
(* PdfViewerDisplay: polling for the viewer root                           *)
(***************************************************************************)
\* the cleanup of the polling effect, run when PdfViewerDisplay unmounts: the
\* observer is disconnected and currentRefsSentToParent emptied; a pending
\* setTimeout is not cleared. The viewer's elements leave the document.
Teardown ==
  /\ ~tornDown
  /\ pollTimer # 0
  /\ lastEvent' = "other"
  /\ stroke' = NoStroke
  /\ redrawn' = NoRedraw
  /\ pressPage' = pressPage
  /\ step' = NoStep
  /\ tornDown' = TRUE
  /\ observing' = FALSE
  /\ sentRefs' = EmptyMap
  /\ rootPresent' = FALSE
  /\ domPages' = {}
  /\ UNCHANGED <<pageBox, textPE, pollTimer, pollFailed, toolVars, refVars, canvasVars,
                 annotationsRef, gestureVars, expVars>>

\* variant: the poll retries without a last attempt
PollMutant ==
  /\ pollTimer # NoTimer
  /\ HistStep([NoStep EXCEPT !.emitted = rootPresent /\ handleMutations(domPages, sentRefs).emit])
  /\ IF rootPresent
       THEN /\ observing' = TRUE
            /\ pollTimer' = NoTimer
            /\ ObserverCallback(domPages)
            /\ UNCHANGED pollFailed
       ELSE /\ pollTimer' = pollTimer + 1
            /\ UNCHANGED <<observing, sentRefs, pollFailed, refVars>>
  /\ UNCHANGED <<envVars, toolVars, canvasVars, annotationsRef, gestureVars, expVars>>

\* one call pollForViewerAndAttachObserver(attempt)
Poll ==
  /\ pollTimer # NoTimer
  /\ HistStep([NoStep EXCEPT !.emitted = rootPresent /\ handleMutations(domPages, sentRefs).emit])
  /\ IF rootPresent
       THEN /\ observing' = TRUE
            /\ pollTimer' = NoTimer
            /\ ObserverCallback(domPages)
            /\ UNCHANGED pollFailed
       ELSE IF pollTimer < MaxAttempts
         THEN /\ pollTimer' = pollTimer + 1
              /\ UNCHANGED <<observing, sentRefs, pollFailed, refVars>>
         ELSE /\ pollTimer' = NoTimer
              /\ pollFailed' = TRUE
              /\ UNCHANGED <<observing, sentRefs, refVars>>
  /\ UNCHANGED <<envVars, toolVars, canvasVars, annotationsRef, gestureVars, expVars>>

(***************************************************************************)
(* PdfEditor: handleToolInteraction                                        *)
(***************************************************************************)
\* pointer events hit a mounted container, or no container at all
NoPage == "none"

\* variant: the handler goes on when the page has a canvas, with or without
\* a context
ResolveMutant(target) ==
  IF activeTool = "none" \/ target = NoPage THEN <<>>
  ELSE LET pi == EditorPageIndex(target) IN
       IF pi = <<>> THEN <<>>
       ELSE IF ~Has(canvasRefs, pi[1]) THEN <<>>
       ELSE pi

\* the early returns: <<pageIndex>> when the handler goes on, <<>> when it
\* returns before looking at the event type
Resolve(target) ==
  IF activeTool = "none" \/ target = NoPage THEN <<>>
  ELSE LET pi == EditorPageIndex(target) IN
       IF pi = <<>> THEN <<>>
       ELSE IF ~Has(canvasRefs, pi[1]) \/ ~(pi[1] \in contextRefs) THEN <<>>
       ELSE pi

\* boundedCanvasX, boundedCanvasY of the canvas-relative point pt
Bounded(pt, canvas) ==
  <<Max2(0, Min2(pt[1], canvas.w)), Max2(0, Min2(pt[2], canvas.h))>>

\* points an annotation records: the path of an erase stroke, the two
\* corners of a blur region, the anchor of a text label
AnnotationPoints(annotation) ==
  IF annotation.type = "erase" THEN Len(annotation.data.path)
  ELSE IF annotation.type = "blur" THEN 2 ELSE 1

RECURSIVE SeqPoints(_)
SeqPoints(pageAnnotations) ==
  IF pageAnnotations = <<>> THEN 0
  ELSE AnnotationPoints(Head(pageAnnotations)) + SeqPoints(Tail(pageAnnotations))

RECURSIVE StorePoints(_)
StorePoints(anns) ==
  IF DOMAIN anns = {} THEN 0
  ELSE LET i == CHOOSE i \in DOMAIN anns : TRUE
       IN SeqPoints(anns[i]) + StorePoints(MapDel(anns, {i}))

\* the model's bound on the store
StoreBounded(anns) == StorePoints(anns) <= MaxPoints

\* the store after the erase branch of mousemove at bounded point b
EraseMove(anns, pageIndex, start, b) ==
  LET pageAnnotations == PageAnnotations(anns, pageIndex)
      n == Len(pageAnnotations)
  IN IF n > 0 /\ pageAnnotations[n].type = "erase"
       THEN [anns EXCEPT ![pageIndex][n].data.path = Append(@, b)]
       ELSE MapSet(anns, pageIndex,
                   Append(pageAnnotations,
                          [pageIndex |-> pageIndex, type |-> "erase",
                           data |-> [path |-> <<start, b>>]]))

\* variant: a drag of exactly the threshold commits
BlurCommitsMutant(start, b) ==
  Abs(start[1] - b[1]) >= BlurThreshold \/ Abs(start[2] - b[2]) >= BlurThreshold

\* whether the mouseup branch commits a blur of the drag start -> b
BlurCommits(start, b) ==
  Abs(start[1] - b[1]) > BlurThreshold \/ Abs(start[2] - b[2]) > BlurThreshold

\* variant: the text label is anchored at the press point
NewAnnotationMutant(tool, pageIndex, start, b, promptText) ==
  IF tool = "blur"
    THEN IF BlurCommits(start, b)
           THEN <<[pageIndex |-> pageIndex, type |-> "blur",
                   data |-> [startX |-> start[1], startY |-> start[2],
                             endX |-> b[1], endY |-> b[2]]]>>
           ELSE <<>>
  ELSE IF tool = "addText" /\ promptText # ""
    THEN <<[pageIndex |-> pageIndex, type |-> "addText",
            data |-> [x |-> start[1], y |-> start[2], text |-> promptText]]>>
  ELSE <<>>

\* newAnnotation of the mouseup branch: <<annotation>>, or <<>> for null
NewAnnotation(tool, pageIndex, start, b, promptText) ==
  IF tool = "blur"
    THEN IF BlurCommits(start, b)
           THEN <<[pageIndex |-> pageIndex, type |-> "blur",
                   data |-> [startX |-> start[1], startY |-> start[2],
                             endX |-> b[1], endY |-> b[2]]]>>
           ELSE <<>>
  ELSE IF tool = "erase" THEN <<>>
  ELSE IF tool = "addText"
    THEN IF promptText # ""
           THEN <<[pageIndex |-> pageIndex, type |-> "addText",
                   data |-> [x |-> b[1], y |-> b[2], text |-> promptText]]>>
           ELSE <<>>
  ELSE <<>>

\* whether the mouseup branch calls prompt("Enter text:")
Prompts(r, tool, start) == r # <<>> /\ start # Null /\ tool = "addText"

\* the store after the mouseup branch
MouseUpStore(anns, tool, pageIndex, start, b, promptText) ==
  IF start = Null THEN anns
  ELSE LET new == NewAnnotation(tool, pageIndex, start, b, promptText) IN
       IF new = <<>> THEN anns
       ELSE MapSet(anns, pageIndex, PageAnnotations(anns, pageIndex) \o new)

MouseDown(target, pt) ==
  LET r == Resolve(target) IN
  /\ lastEvent' = "other"
  /\ redrawn' = NoRedraw
  /\ step' = NoStep
  /\ pressPage' = IF r = <<>> THEN pressPage ELSE r
  /\ tornDown' = tornDown
  /\ IF r = <<>> THEN UNCHANGED progVars /\ stroke' = NoStroke
     ELSE LET b == Bounded(pt, canvasRefs[r[1]]) IN
          /\ isDrawing' = TRUE
          /\ startCoords' = b
          /\ currentCoords' = b
          /\ stroke' = IF activeTool = "erase"
                         THEN [page |-> r[1], before |-> annotationsRef, pts |-> <<b>>,
                               released |-> FALSE]
                         ELSE NoStroke
          /\ UNCHANGED <<envVars, regVars, toolVars, refVars, canvasVars, annotationsRef, expVars>>

MouseMove(target, pt) ==
  LET r == Resolve(target) IN
  /\ lastEvent' = "other"
  /\ redrawn' = NoRedraw
  /\ step' = NoStep
  /\ pressPage' = pressPage
  /\ tornDown' = tornDown
  /\ IF r = <<>> \/ ~isDrawing THEN UNCHANGED progVars /\ stroke' = NoStroke
     ELSE
       LET pageIndex == r[1]
           b == Bounded(pt, canvasRefs[pageIndex])
           cleared == redrawPageAnnotations(canvasRefs, contextRefs, annotationsRef, pageIndex)
       IN /\ currentCoords' = b
          /\ stroke' = IF stroke # NoStroke /\ ~stroke.released /\ stroke.page = pageIndex
                         THEN [stroke EXCEPT !.pts = Append(@, b)]
                         ELSE NoStroke
          /\ IF activeTool = "blur" /\ startCoords # Null
               THEN /\ canvasRefs' = [cleared EXCEPT ![pageIndex].px =
                          drawBlurOverlay(@, startCoords[1], startCoords[2], b[1], b[2])]
                    /\ UNCHANGED annotationsRef
             ELSE IF activeTool = "erase" /\ startCoords # Null
               THEN /\ annotationsRef' = EraseMove(annotationsRef, pageIndex, startCoords, b)
                    /\ canvasRefs' = redrawPageAnnotations(cleared, contextRefs,
                                                           annotationsRef', pageIndex)
             ELSE /\ canvasRefs' = cleared
                  /\ UNCHANGED annotationsRef
          /\ UNCHANGED <<envVars, regVars, toolVars, refVars, contextRefs, isDrawing,
                         startCoords, expVars>>

\* selectedText after handleTextSelection, the native mouseup listener of
\* the viewer container; selection is window.getSelection().toString().trim()
TextSelection(selection) ==
  IF activeTool = "none"
    THEN IF selection # "" THEN selection
         ELSE IF selectedText # "" THEN "" ELSE selectedText
    ELSE IF selectedText # "" THEN "" ELSE selectedText

\* a mouseup inside the viewer container: handleTextSelection, then
\* handleToolInteraction, then the render a changed selectedText causes
MouseUp(target, pt, selection, promptText, ctxFails) ==
  LET r == Resolve(target)
      sel == TextSelection(selection)
      pageIndex == r[1]
      b == Bounded(pt, canvasRefs[pageIndex])
      anns == IF r = <<>> THEN annotationsRef
              ELSE MouseUpStore(annotationsRef, activeTool, pageIndex, startCoords, b, promptText)
      cv == IF r = <<>> THEN canvasRefs
            ELSE redrawPageAnnotations(canvasRefs, contextRefs, anns, pageIndex)
      out == IF sel # selectedText
               THEN Render(cv, anns, activeTool, FALSE, ctxFails)
               ELSE [cv |-> cv, ctx |-> contextRefs, anns |-> anns]
  IN /\ lastEvent' = "mouseup"
     /\ redrawn' = NoRedraw
     /\ pressPage' = pressPage
     /\ tornDown' = tornDown
     /\ step' = [NoStep EXCEPT !.prompted = Prompts(r, activeTool, startCoords),
                               !.discarded = Discarded(annotationsRef, out.anns)]
     /\ stroke' = IF r # <<>> /\ stroke # NoStroke /\ ~stroke.released /\ stroke.page = pageIndex
                    THEN [stroke EXCEPT !.released = TRUE]
                    ELSE NoStroke
     /\ selectedText' = sel
     /\ IF r = <<>> THEN UNCHANGED gestureVars
        ELSE /\ isDrawing' = FALSE
             /\ startCoords' = Null
             /\ currentCoords' = Null
     /\ canvasRefs' = out.cv
     /\ contextRefs' = out.ctx
     /\ annotationsRef' = out.anns
     /\ refsStale' = IF sel # selectedText THEN FALSE ELSE refsStale
     /\ UNCHANGED <<envVars, regVars, activeTool, pageContainerRefs, expVars>>

\* variant: onMouseLeave resets the gesture and redraws nothing
MouseLeaveMutant ==
  /\ lastEvent' = IF isDrawing THEN "mouseleave" ELSE "other"
  /\ stroke' = NoStroke
  /\ redrawn' = NoRedraw
  /\ pressPage' = pressPage
  /\ tornDown' = tornDown
  /\ step' = NoStep
  /\ IF isDrawing
       THEN /\ isDrawing' = FALSE
            /\ startCoords' = Null
            /\ currentCoords' = Null
            /\ UNCHANGED <<envVars, regVars, toolVars, refVars, canvasVars, annotationsRef,
                           expVars>>
       ELSE UNCHANGED progVars

\* onMouseLeave of the viewer container
MouseLeave ==
  /\ lastEvent' = IF isDrawing THEN "mouseleave" ELSE "other"
  /\ stroke' = NoStroke
  /\ redrawn' = NoRedraw
  /\ pressPage' = pressPage
  /\ tornDown' = tornDown
  /\ step' = NoStep
  /\ IF isDrawing
       THEN /\ isDrawing' = FALSE
            /\ startCoords' = Null
            /\ currentCoords' = Null
            /\ canvasRefs' = [i \in DOMAIN canvasRefs |->
                 redrawPageAnnotations(canvasRefs, contextRefs, annotationsRef, i)[i]]
            /\ UNCHANGED <<envVars, regVars, toolVars, refVars, contextRefs, annotationsRef,
                           expVars>>
       ELSE UNCHANGED progVars

(***************************************************************************)
(* PdfEditor: handleToolChange, handleSearchChatGPT                        *)
(***************************************************************************)
\* the text layers handleToolChange reaches: those of the containers that
\* pageContainerRefs holds for a page with a canvas
ReachedTextLayers == {pageContainerRefs[i] : i \in DOMAIN canvasRefs \cap DOMAIN pageContainerRefs}

TextLayerPointerEvents(tool) == IF IsDrawingTool(tool) THEN "none" ELSE "auto"

\* the gesture refs after handleToolChange(tool)
ToolChangeGesture(tool) ==
  IF ~IsDrawingTool(tool) THEN <<FALSE, Null, Null>>
  ELSE <<isDrawing, startCoords, currentCoords>>

\* a click on a tool button: handleToolChange(tool), then the render the
\* state change causes
ToolChange(tool, ctxFails) ==
  LET cv == [i \in DOMAIN canvasRefs |-> [canvasRefs[i] EXCEPT !.pe = CanvasPointerEvents(tool)]]
      rerender == tool # activeTool \/ selectedText # ""
      out == IF rerender
               THEN Render(cv, annotationsRef, tool, tool # activeTool, ctxFails)
               ELSE [cv |-> cv, ctx |-> contextRefs, anns |-> annotationsRef]
  IN /\ HistStep([NoStep EXCEPT !.discarded = Discarded(annotationsRef, out.anns)])
     /\ activeTool' = tool
     /\ selectedText' = ""
     /\ textPE' = [e \in Els |-> IF e \in ReachedTextLayers
                                   THEN TextLayerPointerEvents(tool) ELSE textPE[e]]
     /\ isDrawing' = ToolChangeGesture(tool)[1]
     /\ startCoords' = ToolChangeGesture(tool)[2]
     /\ currentCoords' = ToolChangeGesture(tool)[3]
     /\ canvasRefs' = out.cv
     /\ contextRefs' = out.ctx
     /\ annotationsRef' = out.anns
     /\ refsStale' = IF rerender THEN FALSE ELSE refsStale
     /\ UNCHANGED <<rootPresent, domPages, pageBox, regVars, pageContainerRefs, expVars>>

\* a click on "Search Google" (rendered only while selectedText is set)
SearchClick(ctxFails) ==
  /\ selectedText # ""
  /\ HistStep([NoStep EXCEPT !.discarded =
       Discarded(annotationsRef, Render(canvasRefs, annotationsRef, activeTool, FALSE, ctxFails).anns)])
  /\ selectedText' = ""
  /\ LET out == Render(canvasRefs, annotationsRef, activeTool, FALSE, ctxFails) IN
       /\ canvasRefs' = out.cv
       /\ contextRefs' = out.ctx
       /\ annotationsRef' = out.anns
  /\ refsStale' = FALSE
  /\ UNCHANGED <<envVars, regVars, activeTool, pageContainerRefs, gestureVars, expVars>>

(***************************************************************************)
(* PdfEditor: handleDownload, one step per await                           *)
(***************************************************************************)
DocPages == 0..(NumDocPages - 1)

\* annotationsOnPage && annotationsOnPage.length > 0
Annotated(j) == Has(annotationsRef, j) /\ Len(annotationsRef[j]) > 0

\* the file saveAs gets; its pages are those of pdfDoc (expDoc) at the call
OutputFile == [name |-> "edited-document.pdf", type |-> "application/pdf"]

\* variant: the loop merges onto every page that has a canvas
NextAnnotatedPageMutant(i) ==
  LET hit == {j \in DocPages : j >= i /\ Has(canvasRefs, j)}
  IN IF hit = {} THEN NumDocPages ELSE CHOOSE j \in hit : \A k \in hit : j <= k

\* variant: the catch block hands over what was built so far
ExportAbortMutant ==
  /\ expPc' = "failed"
  /\ saved' = Append(saved, OutputFile)
  /\ UNCHANGED <<expI, expDoc, expRaster, expSeen, exports>>

\* the page the loop stops at from index i on: the first page that passes
\* if (canvasForPage && annotationsOnPage && annotationsOnPage.length > 0),
\* or NumDocPages when there is none
NextAnnotatedPage(i) ==
  LET hit == {j \in DocPages : j >= i /\ Has(canvasRefs, j) /\ Annotated(j)}
  IN IF hit = {} THEN NumDocPages ELSE CHOOSE j \in hit : \A k \in hit : j <= k

\* the for loop from index i up to its next await: canvasForPage.toDataURL()
\* of the next page to merge, or pdfDoc.save() after the last page
ExportLoop(i) ==
  LET j == NextAnnotatedPage(i)
      visited == {k \in DocPages : i <= k /\ k <= j}
  IN /\ expI' = j
     /\ expSeen' = [k \in DOMAIN expSeen \cup visited |->
                      IF k \in DOMAIN expSeen THEN expSeen[k] ELSE Annotated(k)]
     /\ IF j < NumDocPages
          THEN /\ expRaster' = canvasRefs[j].px
               /\ expPc' = "raster"
          ELSE /\ expRaster' = <<>>
               /\ expPc' = "save"

\* the catch block: the run ends without a file
ExportAbort ==
  /\ expPc' = "failed"
  /\ UNCHANGED <<expI, expDoc, expRaster, expSeen, saved, exports>>

ExportRunning == expPc \in {"fetch", "load", "raster", "embed", "save"}

\* a click on "Download PDF" (the model runs one export at a time)
DownloadClick ==
  /\ HistOther
  /\ ~ExportRunning
  /\ exports < MaxExports
  /\ exports' = exports + 1
  /\ expPc' = "fetch"
  /\ expI' = 0
  /\ expDoc' = EmptyMap
  /\ expRaster' = <<>>
  /\ expSeen' = EmptyMap
  /\ UNCHANGED <<saved, envVars, regVars, toolVars, refVars, canvasVars, annotationsRef, gestureVars>>

\* await fetch(pdfUrl).then(res => res.arrayBuffer())
ExportFetched(ok) ==
  /\ HistOther
  /\ expPc = "fetch"
  /\ IF ok THEN expPc' = "load" /\ UNCHANGED <<expI, expDoc, expRaster, expSeen, saved, exports>>
     ELSE ExportAbort
  /\ UNCHANGED <<envVars, regVars, toolVars, refVars, canvasVars, annotationsRef, gestureVars>>

\* await PDFDocument.load(originalPdfBytes), then the loop up to its first await
ExportLoaded(ok) ==
  /\ HistOther
  /\ expPc = "load"
  /\ IF ok THEN /\ expDoc' = [i \in DocPages |-> <<>>]
                /\ ExportLoop(0)
                /\ UNCHANGED <<saved, exports>>
     ELSE ExportAbort
  /\ UNCHANGED <<envVars, regVars, toolVars, refVars, canvasVars, annotationsRef, gestureVars>>

\* await fetch(canvasForPage.toDataURL()).then(res => res.arrayBuffer())
ExportRasterFetched(ok) ==
  /\ HistOther
  /\ expPc = "raster"
  /\ IF ok THEN expPc' = "embed" /\ UNCHANGED <<expI, expDoc, expRaster, expSeen, saved, exports>>
     ELSE ExportAbort
  /\ UNCHANGED <<envVars, regVars, toolVars, refVars, canvasVars, annotationsRef, gestureVars>>

\* variant: the page gets what its canvas shows when embedPng resolves
ExportEmbeddedMutant(ok) ==
  /\ HistOther
  /\ expPc = "embed"
  /\ IF ok THEN /\ expDoc' = [expDoc EXCEPT ![expI] = Append(@, canvasRefs[expI].px)]
                /\ ExportLoop(expI + 1)
                /\ UNCHANGED <<saved, exports>>
     ELSE ExportAbort
  /\ UNCHANGED <<envVars, regVars, toolVars, refVars, canvasVars, annotationsRef, gestureVars>>

\* await pdfDoc.embedPng(canvasImageBytes), page.drawImage, then the loop on
ExportEmbedded(ok) ==
  /\ HistOther
  /\ expPc = "embed"
  /\ IF ok THEN /\ expDoc' = [expDoc EXCEPT ![expI] = Append(@, expRaster)]
                /\ ExportLoop(expI + 1)
                /\ UNCHANGED <<saved, exports>>
     ELSE ExportAbort
  /\ UNCHANGED <<envVars, regVars, toolVars, refVars, canvasVars, annotationsRef, gestureVars>>

\* await pdfDoc.save(), then saveAs(blob, 'edited-document.pdf')
ExportSaved(ok) ==
  /\ HistOther
  /\ expPc = "save"
  /\ IF ok THEN /\ saved' = Append(saved, OutputFile)
                /\ expPc' = "done"
                /\ UNCHANGED <<expI, expDoc, expRaster, expSeen, exports>>
     ELSE ExportAbort
  /\ UNCHANGED <<envVars, regVars, toolVars, refVars, canvasVars, annotationsRef, gestureVars>>

(***************************************************************************)
(* Inputs of the pointer handlers                                          *)
(***************************************************************************)
\* the canvas-relative positions to try over target e: the handler reads the
\* position only after its early returns
PointsAt(e, points) == IF Resolve(e) = <<>> THEN {<<0, 0>>} ELSE points

\* what prompt("Enter text:") returns ("" stands for empty and for cancel);
\* only the addText branch calls it
PromptAnswers == IF activeTool = "addText" THEN {"", "T"} ELSE {""}

(***************************************************************************)
(* Initial state: both components mounted, the first poll call pending     *)
(***************************************************************************)
Init ==
  /\ rootPresent \in BOOLEAN
  /\ domPages = {}
  /\ pageBox = <<8, 8>>
  /\ textPE = [e \in Els |-> "auto"]
  /\ pollTimer = 0
  /\ observing = FALSE
  /\ sentRefs = EmptyMap
  /\ pollFailed = FALSE
  /\ activeTool = "none"
  /\ selectedText = ""
  /\ pageContainerRefs = EmptyMap
  /\ refsStale = FALSE
  /\ canvasRefs = EmptyMap
  /\ contextRefs = {}
  /\ annotationsRef = EmptyMap
  /\ isDrawing = FALSE
  /\ startCoords = Null
  /\ currentCoords = Null
  /\ expPc = "idle"
  /\ expI = 0
  /\ expDoc = EmptyMap
  /\ expRaster = <<>>
  /\ expSeen = EmptyMap
  /\ saved = <<>>
  /\ exports = 0
  /\ lastEvent = "other"
  /\ stroke = NoStroke
  /\ redrawn = NoRedraw
  /\ pressPage = <<>>
  /\ tornDown = FALSE
  /\ step = NoStep

(***************************************************************************)
(* Spec: registry, canvases, tools and gestures                            *)
(***************************************************************************)
\* the containers the renderer mounts here
SyncEls == {"a", "b"}

\* canvas-relative pointer positions
SyncPoints == {<<0, 0>>}

Next ==
  \/ RootAppear
  \/ Poll
  \/ \E e \in SyncEls : PageMount(e)
  \/ \E e \in SyncEls : PageUnmount(e)
  \/ \E t \in Tools : ToolChange(t, {})
  \/ \E e \in domPages \cup {NoPage} : \E pt \in PointsAt(e, SyncPoints) : MouseDown(e, pt)
  \/ \E e \in domPages \cup {NoPage} : \E pt \in PointsAt(e, SyncPoints) :
       MouseMove(e, pt) /\ StoreBounded(annotationsRef')
  \/ \E e \in domPages \cup {NoPage} : \E pt \in PointsAt(e, SyncPoints), sel \in {"", "s"} :
       MouseUp(e, pt, sel, "T", {}) /\ StoreBounded(annotationsRef')
  \/ MouseLeave
  \/ SearchClick({})

Spec == Init /\ [][Next]_vars

(***************************************************************************)
(* SpecGesture: the tool state machine on a settled document               *)
(***************************************************************************)
\* the state after: root found, containers "a" (Page 1) and "x" (Page x)
\* mounted, mapping {0 -> "a"} emitted, a tool selected (the canvas of page 0
\* is created) and "none" selected again
InitGesture ==
  /\ rootPresent = TRUE
  /\ domPages = {"a", "x"}
  /\ pageBox = <<8, 8>>
  /\ textPE = [e \in Els |-> "auto"]
  /\ pollTimer = NoTimer
  /\ observing = TRUE
  /\ sentRefs = [i \in {0} |-> "a"]
  /\ pollFailed = FALSE
  /\ activeTool = "none"
  /\ selectedText = ""
  /\ pageContainerRefs = [i \in {0} |-> "a"]
  /\ refsStale = FALSE
  /\ canvasRefs = [i \in {0} |-> [w |-> 8, h |-> 8, pe |-> "none",
                                  parent |-> <<"a", "layer">>, px |-> <<>>]]
  /\ contextRefs = {0}
  /\ annotationsRef = EmptyMap
  /\ isDrawing = FALSE
  /\ startCoords = Null
  /\ currentCoords = Null
  /\ expPc = "idle"
  /\ expI = 0
  /\ expDoc = EmptyMap
  /\ expRaster = <<>>
  /\ expSeen = EmptyMap
  /\ saved = <<>>
  /\ exports = 0
  /\ lastEvent = "other"
  /\ stroke = NoStroke
  /\ redrawn = NoRedraw
  /\ pressPage = <<>>
  /\ tornDown = FALSE
  /\ step = NoStep

\* canvas-relative pointer positions: 5 and 6 apart, around the blur threshold
GesturePoints == {<<0, 0>>, <<5, 5>>, <<6, 0>>}

\* what the pointer can be over inside the viewer container
GestureTargets == {"a", "x", NoPage}

NextGesture ==
  \/ \E t \in Tools : ToolChange(t, {})
  \/ \E e \in GestureTargets : \E pt \in PointsAt(e, GesturePoints) : MouseDown(e, pt)
  \/ \E e \in GestureTargets : \E pt \in PointsAt(e, GesturePoints) :
       MouseMove(e, pt) /\ StoreBounded(annotationsRef')
  \/ \E e \in GestureTargets : \E pt \in PointsAt(e, GesturePoints), text \in PromptAnswers :
       MouseUp(e, pt, "", text, {}) /\ StoreBounded(annotationsRef')
  \/ MouseLeave

SpecGesture == InitGesture /\ [][NextGesture]_vars

(***************************************************************************)
(* SpecExport: handleDownload interleaved with gestures                    *)
(***************************************************************************)
\* the state after: root found, containers "a" (Page 1) and "b" (Page 2)
\* mounted, mapping {0 -> "a", 1 -> "b"} emitted, a tool selected (both
\* canvases are created) and "none" selected again
InitExport ==
  /\ rootPresent = TRUE
  /\ domPages = {"a", "b"}
  /\ pageBox = <<8, 8>>
  /\ textPE = [e \in Els |-> "auto"]
  /\ pollTimer = NoTimer
  /\ observing = TRUE
  /\ sentRefs = [i \in {0, 1} |-> IF i = 0 THEN "a" ELSE "b"]
  /\ pollFailed = FALSE
  /\ activeTool = "none"
  /\ selectedText = ""
  /\ pageContainerRefs = [i \in {0, 1} |-> IF i = 0 THEN "a" ELSE "b"]
  /\ refsStale = FALSE
  /\ canvasRefs = [i \in {0, 1} |-> [w |-> 8, h |-> 8, pe |-> "none",
                                     parent |-> TargetParent(IF i = 0 THEN "a" ELSE "b"),
                                     px |-> <<>>]]
  /\ contextRefs = {0, 1}
  /\ annotationsRef = EmptyMap
  /\ isDrawing = FALSE
  /\ startCoords = Null
  /\ currentCoords = Null
  /\ expPc = "idle"
  /\ expI = 0
  /\ expDoc = EmptyMap
  /\ expRaster = <<>>
  /\ expSeen = EmptyMap
  /\ saved = <<>>
  /\ exports = 0
  /\ lastEvent = "other"
  /\ stroke = NoStroke
  /\ redrawn = NoRedraw
  /\ pressPage = <<>>
  /\ tornDown = FALSE
  /\ step = NoStep

ExportPoints == {<<0, 0>>, <<6, 6>>}

ExportTargets == {"a", "b"}

\* the tools used in this specification: blur is the tool with a preview,
\* and handleDownload does not look at the type of a record
ExportTools == {"none", "blur"}

\* the model follows the session until its last export has ended
SessionOpen == exports < MaxExports \/ ExportRunning

NextExport ==
  \/ \E t \in ExportTools : SessionOpen /\ ToolChange(t, {})
  \/ \E e \in ExportTargets : \E pt \in PointsAt(e, ExportPoints) :
       SessionOpen /\ MouseDown(e, pt)
  \/ \E e \in ExportTargets : \E pt \in PointsAt(e, ExportPoints) :
       SessionOpen /\ MouseMove(e, pt) /\ StoreBounded(annotationsRef')
  \/ \E e \in ExportTargets : \E pt \in PointsAt(e, ExportPoints), text \in PromptAnswers :
       SessionOpen /\ MouseUp(e, pt, "", text, {}) /\ StoreBounded(annotationsRef')
  \/ SessionOpen /\ MouseLeave
  \/ DownloadClick
  \/ \E ok \in BOOLEAN : ExportFetched(ok)
  \/ \E ok \in BOOLEAN : ExportLoaded(ok)
  \/ \E ok \in BOOLEAN : ExportRasterFetched(ok)
  \/ \E ok \in BOOLEAN : ExportEmbedded(ok)
  \/ \E ok \in BOOLEAN : ExportSaved(ok)

SpecExport == InitExport /\ [][NextExport]_vars

(***************************************************************************)
(* SpecRedraw: redrawPageAnnotations applied to stores and bitmaps         *)
(***************************************************************************)
\* redrawPageAnnotations(pageIndex), called on its own
Redraw(pageIndex) ==
  LET cv == redrawPageAnnotations(canvasRefs, contextRefs, annotationsRef, pageIndex)
      again == redrawn # NoRedraw /\ redrawn.page = pageIndex
      px == IF Has(cv, pageIndex) THEN cv[pageIndex].px ELSE <<>>
  IN /\ ~(again /\ redrawn.times = 2)
     /\ canvasRefs' = cv
     /\ redrawn' = [page |-> pageIndex,
                    times |-> IF again THEN redrawn.times + 1 ELSE 1,
                    once |-> IF again THEN redrawn.once ELSE px]
     /\ lastEvent' = "other"
     /\ stroke' = NoStroke
     /\ pressPage' = pressPage
     /\ tornDown' = tornDown
     /\ step' = NoStep
     /\ UNCHANGED <<envVars, regVars, toolVars, refVars, contextRefs, annotationsRef,
                    gestureVars, expVars>>

\* records a page of the store can hold
RedrawRecords(pageIndex) ==
  {[pageIndex |-> pageIndex, type |-> "blur",
    data |-> [startX |-> 0, startY |-> 0, endX |-> 6, endY |-> 6]],
   [pageIndex |-> pageIndex, type |-> "erase",
    data |-> [path |-> <<<<0, 0>>, <<6, 6>>>>]],
   [pageIndex |-> pageIndex, type |-> "addText",
    data |-> [x |-> 0, y |-> 0, text |-> "T"]]}

RedrawSeqs(pageIndex) ==
  UNION {[1..n -> RedrawRecords(pageIndex)] : n \in 0..MaxRedrawLen}

\* the store with sequence s0 on page 0 and s1 on page 1 (no entry for a
\* page nothing was ever drawn on)
RedrawStore(s0, s1) ==
  [i \in {j \in {0, 1} : (IF j = 0 THEN s0 ELSE s1) # <<>>} |-> IF i = 0 THEN s0 ELSE s1]

\* what a canvas can show before the call: nothing, the replay of the page's
\* records, that replay under a blur preview, or what an earlier store left
RedrawPriors(pageAnnotations) ==
  {<<>>,
   Replay(<<>>, pageAnnotations),
   drawBlurOverlay(Replay(<<>>, pageAnnotations), 0, 0, 6, 6),
   drawText(<<>>, 0, 0, "T")}

InitRedraw ==
  /\ rootPresent = TRUE
  /\ domPages = {"a", "b"}
  /\ pageBox = <<8, 8>>
  /\ textPE = [e \in Els |-> IF e \in {"a", "b"} THEN "none" ELSE "auto"]
  /\ pollTimer = NoTimer
  /\ observing = TRUE
  /\ sentRefs = [i \in {0, 1} |-> IF i = 0 THEN "a" ELSE "b"]
  /\ pollFailed = FALSE
  /\ activeTool = "blur"
  /\ selectedText = ""
  /\ pageContainerRefs = [i \in {0, 1} |-> IF i = 0 THEN "a" ELSE "b"]
  /\ refsStale = FALSE
  /\ \E s0 \in RedrawSeqs(0), s1 \in RedrawSeqs(1) :
       /\ annotationsRef = RedrawStore(s0, s1)
       /\ \E p0 \in RedrawPriors(s0), p1 \in RedrawPriors(s1) :
            canvasRefs = [i \in {0, 1} |->
                            [w |-> 8, h |-> 8, pe |-> "auto",
                             parent |-> TargetParent(IF i = 0 THEN "a" ELSE "b"),
                             px |-> IF i = 0 THEN p0 ELSE p1]]
  /\ contextRefs = {0, 1}
  /\ isDrawing = FALSE
  /\ startCoords = Null
  /\ currentCoords = Null
  /\ expPc = "idle"
  /\ expI = 0
  /\ expDoc = EmptyMap
  /\ expRaster = <<>>
  /\ expSeen = EmptyMap
  /\ saved = <<>>
  /\ exports = 0
  /\ lastEvent = "other"
  /\ stroke = NoStroke
  /\ redrawn = NoRedraw
  /\ pressPage = <<>>
  /\ tornDown = FALSE
  /\ step = NoStep

NextRedraw == \E pageIndex \in {0, 1} : Redraw(pageIndex)

SpecRedraw == InitRedraw /\ [][NextRedraw]_vars

(***************************************************************************)
(* SpecPoll: the poll for the viewer root, with the session around it      *)
(***************************************************************************)
NextPoll ==
  \/ RootAppear
  \/ Poll
  \/ \E e \in SyncEls : PageMount(e)
  \/ \E e \in SyncEls : PageUnmount(e)
  \/ \E t \in Tools : ToolChange(t, {})
  \/ DownloadClick
  \/ \E ok \in BOOLEAN : ExportFetched(ok)
  \/ \E ok \in BOOLEAN : ExportLoaded(ok)
  \/ \E ok \in BOOLEAN : ExportSaved(ok)

\* a timer set with setTimeout fires
SpecPoll == Init /\ [][NextPoll]_vars /\ WF_vars(Poll)

(***************************************************************************)
(* SpecRegistry: the registry and the canvas effect under changes of the   *)
(* document                                                                *)
(***************************************************************************)
\* the containers the viewer mounts in this specification
RegistryEls == {"a", "b", "g", "x"}

NextRegistry ==
  \/ RootAppear
  \/ Poll
  \/ \E e \in RegistryEls : PageMount(e)
  \/ \E e \in RegistryEls : PageUnmount(e)
  \/ \E box \in Boxes : Resize(box)
  \/ \E t \in Tools : ToolChange(t, {})

SpecRegistry == Init /\ [][NextRegistry]_vars

(***************************************************************************)
(* SpecLabels: containers whose label is not "Page N"                      *)
(***************************************************************************)
\* "b" is Page 2; the labels of "x" (Page x) and "h" (Page 0x2) name no page
LabelEls == {"b", "x", "h"}

LabelPoints == {<<0, 0>>, <<6, 6>>}

LabelTools == {"none", "blur"}

NextLabels ==
  \/ RootAppear
  \/ Poll
  \/ \E e \in LabelEls : PageMount(e)
  \/ \E e \in LabelEls : PageUnmount(e)
  \/ \E t \in LabelTools : ToolChange(t, {})
  \/ \E e \in domPages : \E pt \in LabelPoints : MouseDown(e, pt)
  \/ \E e \in domPages : \E pt \in LabelPoints :
       MouseMove(e, pt) /\ StoreBounded(annotationsRef')
  \/ \E e \in domPages : \E pt \in LabelPoints :
       MouseUp(e, pt, "", "", {}) /\ StoreBounded(annotationsRef')

SpecLabels == Init /\ [][NextLabels]_vars

(***************************************************************************)
(* Claims                                                                  *)
(***************************************************************************)
\* C1: in every reachable state the page indices that own a drawing surface
\* are exactly the indices of the most recently emitted mapping.
C1_SurfacesMatchLatestMapping == DOMAIN canvasRefs = DOMAIN sentRefs

\* C2: a release with tool blur and a recorded start on a page with a live
\* surface appends exactly one blur region {start, release point} to that
\* page's sequence when the drag is more than 5 on some axis, and leaves the
\* store unchanged when it is at most 5 on both.
C2_BlurCommitThreshold ==
  [][\A e \in GestureTargets : \A pt \in GesturePoints : \A text \in {"", "T"} :
       (/\ activeTool = "blur"
        /\ startCoords # Null
        /\ Resolve(e) # <<>>
        /\ MouseUp(e, pt, "", text, {}))
       => LET p == Resolve(e)[1]
              ex == Max2(0, Min2(pt[1], canvasRefs[p].w))
              ey == Max2(0, Min2(pt[2], canvasRefs[p].h))
              sx == startCoords[1]
              sy == startCoords[2]
          IN IF Abs(ex - sx) > 5 \/ Abs(ey - sy) > 5
               THEN annotationsRef' =
                      MapSet(annotationsRef, p,
                             Append(PageAnnotations(annotationsRef, p),
                                    [pageIndex |-> p, type |-> "blur",
                                     data |-> [startX |-> sx, startY |-> sy,
                                               endX |-> ex, endY |-> ey]]))
               ELSE annotationsRef' = annotationsRef]_vars

\* C2 witness: a blur drag (0,0) -> (6,0) was just released and committed.
C2_Witness ==
  /\ lastEvent = "mouseup"
  /\ activeTool = "blur"
  /\ Has(annotationsRef, 0)
  /\ annotationsRef[0][Len(annotationsRef[0])] =
       [pageIndex |-> 0, type |-> "blur",
        data |-> [startX |-> 0, startY |-> 0, endX |-> 6, endY |-> 0]]

\* C3: after an erase gesture (press p0, moves p1..pn on the same page,
\* release) the store is the store at the press plus exactly one new erase
\* stroke with points [p0..pn] on that page, whatever it held before.
C3_EraseGestureAddsOneStroke ==
  (stroke # NoStroke /\ stroke.released /\ Len(stroke.pts) >= 2)
    => annotationsRef =
         MapSet(stroke.before, stroke.page,
                Append(PageAnnotations(stroke.before, stroke.page),
                       [pageIndex |-> stroke.page, type |-> "erase",
                        data |-> [path |-> stroke.pts]]))

\* C4: any change of the selected tool while a gesture is Dragging forces the
\* gesture to Idle (active flag false, start point cleared) and keeps the
\* erase points already in the store.
C4_ToolChangeForcesIdle ==
  [][(isDrawing /\ activeTool' # activeTool)
       => (isDrawing' = FALSE /\ startCoords' = Null /\ annotationsRef' = annotationsRef)]_vars

\* C5: after redraw of a page its canvas shows the clear followed by the
\* replay, in order, of the page's stored records, whatever it showed before;
\* a second call right after the first leaves what the first left.
C5_RedrawIdempotent ==
  redrawn # NoRedraw
    => LET px == canvasRefs[redrawn.page].px
       IN /\ px = Replay(<<>>, PageAnnotations(annotationsRef, redrawn.page))
          /\ redrawn.times = 2 => px = redrawn.once

\* C5 witness: redraw ran twice in a row on a page that holds two records.
C5_Witness ==
  /\ redrawn # NoRedraw
  /\ redrawn.times = 2
  /\ Len(PageAnnotations(annotationsRef, redrawn.page)) = 2
  /\ canvasRefs[redrawn.page].px # <<>>

\* C6: export merges a raster layer onto a page exactly when the page had at
\* least one stored annotation when the loop processed it; a page without
\* annotations gets no layer.
C6_LayerIffAnnotated ==
  \A j \in DOMAIN expSeen :
    (j < expI \/ expPc \in {"save", "done"})
      => /\ expSeen[j] => Len(expDoc[j]) = 1
         /\ ~expSeen[j] => expDoc[j] = <<>>

\* C6 witness: an export has ended that merged a layer onto page 0, which had
\* annotations, and none onto page 1, which had none.
C6_Witness ==
  /\ expPc = "done"
  /\ expSeen[0] /\ expDoc[0] # <<>>
  /\ ~expSeen[1] /\ expDoc[1] = <<>>

\* C7: a file is delivered only by the step that follows the successful
\* re-encode after every page step, it is edited-document.pdf, and a run that
\* ends well delivers exactly one; a step that fails delivers nothing and
\* changes neither the store, the canvases, the tool nor the gesture.
C7_ExportAllOrNothing ==
  [][/\ saved' # saved
          => /\ expPc = "save" /\ expPc' = "done" /\ expI = NumDocPages
             /\ saved' = Append(saved, [name |-> "edited-document.pdf",
                                        type |-> "application/pdf"])
     /\ (expPc' = "done" /\ expPc # "done") => Len(saved') = Len(saved) + 1
     /\ (expPc' = "failed" /\ expPc # "failed")
          => /\ saved' = saved
             /\ UNCHANGED <<annotationsRef, canvasVars, toolVars, gestureVars>>]_vars

\* C7 witness: an export failed after it had merged a layer, and no file was
\* delivered.
C7_Witness ==
  /\ expPc = "failed"
  /\ \E j \in DOMAIN expDoc : expDoc[j] # <<>>
  /\ saved = <<>>

\* C8: the bitmap export takes for a page is exactly the replay, in order, of
\* the page's stored annotations at that moment.
C8_LayerIsStoreReplay ==
  [][(expPc' = "raster" /\ (expPc # "raster" \/ expI' # expI))
       => expRaster' = Replay(<<>>, PageAnnotations(annotationsRef', expI'))]_vars

\* C9: for every page with a live surface exactly one of the surface and the
\* page's text layer accepts pointer input: the surface iff a drawing tool is
\* selected, the text layer iff the tool is none.
C9_PointerInputExclusive ==
  \A i \in DOMAIN canvasRefs \cap DOMAIN pageContainerRefs :
    /\ (canvasRefs[i].pe = "auto") <=> IsDrawingTool(activeTool)
    /\ (textPE[pageContainerRefs[i]] = "auto") <=> (activeTool = "none")

\* C10: after any mouseup inside the viewer while a drawing tool is selected
\* the gesture is Idle: active flag false, start and current point cleared.
C10_ReleaseDiscardsGesture ==
  (lastEvent = "mouseup" /\ IsDrawingTool(activeTool))
    => (isDrawing = FALSE /\ startCoords = Null /\ currentCoords = Null)

\* C11: every record a gesture appends or extends is stored under the page
\* index of the press that began the gesture, whatever page the later move
\* or release lands in.
C11_GestureBoundToPressPage ==
  [][\A i \in DOMAIN annotationsRef' :
       (i \in DOMAIN annotationsRef => annotationsRef'[i] # annotationsRef[i])
         => pressPage = <<i>>]_vars

\* C12: when the pointer leaves the viewer container during a drag, the
\* gesture becomes Idle, the store keeps what it held (erase points
\* included), and every canvas shows exactly the replay of its page's
\* records; a release that follows with no new press commits nothing and
\* does not prompt.
C12_LeaveAbortsGesture ==
  [][/\ (isDrawing /\ lastEvent' = "mouseleave")
          => /\ isDrawing' = FALSE /\ startCoords' = Null /\ currentCoords' = Null
             /\ annotationsRef' = annotationsRef
             /\ \A i \in DOMAIN canvasRefs' :
                  canvasRefs'[i].px = Replay(<<>>, PageAnnotations(annotationsRef', i))
     /\ (lastEvent = "mouseleave" /\ lastEvent' = "mouseup")
          => /\ annotationsRef' = annotationsRef
             /\ ~step'.prompted]_vars

\* C12 witness: the pointer just left during a blur drag begun on page 0,
\* after an erase stroke had been stored.
C12_Witness ==
  /\ lastEvent = "mouseleave"
  /\ activeTool = "blur"
  /\ pressPage = <<0>>
  /\ Has(annotationsRef, 0)
  /\ annotationsRef[0][1].type = "erase"

\* C13: a release with tool addText and a recorded start on a page with a
\* canvas prompts; a non-empty answer appends exactly one text label
\* {x, y, text} at the release point to that page's sequence, however short
\* the drag; an empty or cancelled answer leaves the store unchanged.
C13_AddTextOnRelease ==
  [][\A e \in GestureTargets : \A pt \in GesturePoints : \A text \in {"", "T"} :
       (/\ activeTool = "addText"
        /\ startCoords # Null
        /\ Resolve(e) # <<>>
        /\ MouseUp(e, pt, "", text, {}))
       => LET p == Resolve(e)[1]
              ex == Max2(0, Min2(pt[1], canvasRefs[p].w))
              ey == Max2(0, Min2(pt[2], canvasRefs[p].h))
          IN /\ step'.prompted
             /\ IF text # ""
                  THEN annotationsRef' =
                         MapSet(annotationsRef, p,
                                Append(PageAnnotations(annotationsRef, p),
                                       [pageIndex |-> p, type |-> "addText",
                                        data |-> [x |-> ex, y |-> ey, text |-> text]]))
                  ELSE annotationsRef' = annotationsRef]_vars

\* C13 witness: a release at (6,0) with tool addText just prompted and stored
\* the label there.
C13_Witness ==
  /\ lastEvent = "mouseup"
  /\ step.prompted
  /\ activeTool = "addText"
  /\ Has(annotationsRef, 0)
  /\ annotationsRef[0][Len(annotationsRef[0])] =
       [pageIndex |-> 0, type |-> "addText", data |-> [x |-> 6, y |-> 0, text |-> "T"]]

\* C14: the poll retries at most MaxAttempts times and ends; when it finds
\* the root it attaches the observer and never polls again; when it gives up
\* it reports failure, never polls or observes again and no mapping is ever
\* emitted.
C14_PollTerminates ==
  /\ [](pollTimer = NoTimer \/ (0 <= pollTimer /\ pollTimer <= 50))
  /\ [][/\ (observing' /\ ~observing) => (rootPresent /\ pollTimer' = NoTimer /\ ~pollFailed')
        /\ observing => (observing' /\ pollTimer' = NoTimer)
        /\ (pollFailed' /\ ~pollFailed) => (pollTimer = 50 /\ ~rootPresent)
        /\ pollFailed => /\ pollFailed' /\ pollTimer' = NoTimer /\ ~observing'
                         /\ ~step'.emitted /\ sentRefs' = EmptyMap]_vars
  /\ <>(pollTimer = NoTimer)

\* C14 witness: the poll gave up, the root appeared afterwards, and the user
\* still selected a tool and downloaded the document.
C14_Witness ==
  /\ pollFailed
  /\ rootPresent
  /\ pollTimer = NoTimer
  /\ activeTool = "blur"
  /\ expPc = "done"

\* C15: the registry emits exactly when the set of page indices of the
\* mounted containers differs from the index set it emitted last (empty at
\* first): an emitted mapping has another index set than the one before, and
\* a change of the document that leaves the index set as emitted emits
\* nothing.
C15_EmitOnlyOnIndexSetChange ==
  [][LET now == {i \in 0..9 : \E e \in domPages' : ViewerPageIndex(e) = <<i>>}
     IN /\ step'.emitted => (DOMAIN sentRefs' # DOMAIN sentRefs /\ DOMAIN sentRefs' = now)
        /\ sentRefs' # sentRefs => step'.emitted
        /\ (observing /\ domPages' # domPages /\ now = DOMAIN sentRefs)
             => (~step'.emitted /\ sentRefs' = sentRefs)]_vars

\* C15 witness: container "a" (Page 1) was mapped, then replaced by container
\* "g" of the same index; nothing was emitted for it.
C15_Witness ==
  /\ observing
  /\ domPages = {"g"}
  /\ DOMAIN sentRefs = {0}
  /\ sentRefs[0] = "a"
  /\ ~step.emitted

\* C16: a container whose label is not "Page N" with N >= 1 is left out of
\* the mapping while every other mounted page is mapped at N - 1 and the
\* mapping is emitted when its index set changed; a press, move or release on
\* such a container changes neither the store nor the gesture.
C16_UnparsableLabelDropped ==
  [][/\ step'.emitted
          => /\ sentRefs' = [i \in {1} \cap {IF "b" \in domPages' THEN 1 ELSE 0} |-> "b"]
     /\ \A e \in {"x", "h"} \cap domPages : \A pt \in LabelPoints :
          (MouseDown(e, pt) \/ MouseMove(e, pt) \/ MouseUp(e, pt, "", "", {}))
            => (annotationsRef' = annotationsRef /\ UNCHANGED gestureVars)]_vars

(***************************************************************************)
(* SpecSurface: pages without a canvas or without a context                *)
(***************************************************************************)
\* the page indices whose getContext('2d') may return null
SurfaceFails == {{}, {0}}

SurfaceTools == {"none", "blur", "erase"}

NextSurface ==
  \/ RootAppear
  \/ Poll
  \/ \E e \in SyncEls : PageMount(e)
  \/ \E e \in SyncEls : PageUnmount(e)
  \/ \E t \in SurfaceTools : \E f \in SurfaceFails : ToolChange(t, f)
  \/ \E e \in domPages : \E pt \in SyncPoints : MouseDown(e, pt)
  \/ \E e \in domPages : \E pt \in SyncPoints :
       MouseMove(e, pt) /\ StoreBounded(annotationsRef')
  \/ \E e \in domPages : \E pt \in SyncPoints :
       MouseUp(e, pt, "", "", {}) /\ StoreBounded(annotationsRef')
  \/ MouseLeave
  \/ \E pageIndex \in {0, 1} : Redraw(pageIndex)

SpecSurface == Init /\ [][NextSurface]_vars

(***************************************************************************)
(* SpecResize: gestures on a page whose container changes size             *)
(***************************************************************************)
ResizeEls == {"a"}

\* (12,10) lies inside the 16x12 box and outside the 8x8 box
ResizePoints == {<<0, 0>>, <<12, 10>>}

ResizeTools == {"none", "blur"}

NextResize ==
  \/ RootAppear
  \/ Poll
  \/ \E e \in ResizeEls : PageMount(e)
  \/ \E e \in ResizeEls : PageUnmount(e)
  \/ \E box \in Boxes : Resize(box)
  \/ \E t \in ResizeTools : ToolChange(t, {})
  \/ \E e \in domPages : \E pt \in ResizePoints : MouseDown(e, pt)
  \/ \E e \in domPages : \E pt \in ResizePoints :
       MouseMove(e, pt) /\ StoreBounded(annotationsRef')
  \/ \E e \in domPages : \E pt \in ResizePoints :
       MouseUp(e, pt, "", "T", {}) /\ StoreBounded(annotationsRef')

SpecResize == Init /\ [][NextResize]_vars

(***************************************************************************)
(* SpecClamp: as SpecResize, with two drawing tools                        *)
(***************************************************************************)
ClampTools == {"none", "blur", "erase"}

NextClamp ==
  \/ RootAppear
  \/ Poll
  \/ \E e \in ResizeEls : PageMount(e)
  \/ \E e \in ResizeEls : PageUnmount(e)
  \/ \E box \in Boxes : Resize(box)
  \/ \E t \in ClampTools : ToolChange(t, {})
  \/ \E e \in domPages : \E pt \in ResizePoints : MouseDown(e, pt)
  \/ \E e \in domPages : \E pt \in ResizePoints :
       MouseMove(e, pt) /\ StoreBounded(annotationsRef')
  \/ \E e \in domPages : \E pt \in ResizePoints :
       MouseUp(e, pt, "", "", {}) /\ StoreBounded(annotationsRef')

SpecClamp == Init /\ [][NextClamp]_vars

(***************************************************************************)
(* SpecTeardown: PdfViewerDisplay unmounts                                 *)
(***************************************************************************)
NextTeardown ==
  \/ RootAppear
  \/ Poll
  \/ \E e \in SyncEls : PageMount(e)
  \/ \E e \in SyncEls : PageUnmount(e)
  \/ Teardown

SpecTeardown == Init /\ [][NextTeardown]_vars

\* C17: when the canvas effect runs on a mapping that lacks an index which
\* has a canvas, that canvas, its context and the index's annotation sequence
\* are removed; every index of the mapping that had a canvas keeps it, and
\* keeps its annotation sequence as it was.
C17_VanishedIndexDiscarded ==
  [][(refsStale /\ ~refsStale')
       => /\ \A i \in DOMAIN canvasRefs \ DOMAIN pageContainerRefs :
               /\ ~Has(canvasRefs', i)
               /\ i \notin contextRefs'
               /\ ~Has(annotationsRef', i)
          /\ \A i \in DOMAIN canvasRefs \cap DOMAIN pageContainerRefs :
               /\ Has(canvasRefs', i)
               /\ (i \in contextRefs') <=> (i \in contextRefs)
               /\ Has(annotationsRef', i) <=> Has(annotationsRef, i)
               /\ PageAnnotations(annotationsRef', i) = PageAnnotations(annotationsRef, i)]_vars

\* C17 witness: the effect just discarded the sequence of index 0, which had
\* vanished, and kept the canvas and the sequence of index 1.
C17_Witness ==
  /\ step.discarded = {0}
  /\ ~Has(canvasRefs, 0)
  /\ ~Has(annotationsRef, 0)
  /\ Has(canvasRefs, 1)
  /\ Has(annotationsRef, 1)
  /\ annotationsRef[1] # <<>>

\* page index i has no canvas or no context
NoSurface(i) == ~Has(canvasRefs, i) \/ ~(i \in contextRefs)

C19_SurfaceSizedToContainer ==
  \A i \in DOMAIN canvasRefs \cap DOMAIN pageContainerRefs :
    pageContainerRefs[i] \in domPages
      => <<canvasRefs[i].w, canvasRefs[i].h>> = pageBox

\* C20: the annotation store changes only on a pointer step of a gesture in
\* progress: a release with Blur or Add Text, or a move with Erase; every
\* other step leaves every page's annotation sequence unchanged.
C20_StoreMutatedOnlyByGestures ==
  [][annotationsRef' # annotationsRef
       => /\ isDrawing
          /\ step'.discarded = {}
          /\ \/ lastEvent' = "mouseup" /\ activeTool \in {"blur", "addText"}
             \/ /\ activeTool = "erase"
                /\ \E e \in domPages : \E pt \in SyncPoints : MouseMove(e, pt)]_vars

\* C21: a step that gives a canvas another pixel size leaves the annotation
\* sequence of its page, with every recorded coordinate, as it was.
C21_ResizeKeepsPayloads ==
  [][\A i \in DOMAIN canvasRefs \cap DOMAIN canvasRefs' :
       <<canvasRefs'[i].w, canvasRefs'[i].h>> # <<canvasRefs[i].w, canvasRefs[i].h>>
         => /\ Has(annotationsRef', i) <=> Has(annotationsRef, i)
            /\ PageAnnotations(annotationsRef', i) = PageAnnotations(annotationsRef, i)]_vars

\* C21 witness: the canvas of page 1 is 8x8 again and the store holds the
\* blur region recorded up to (12,10) while the canvas was 16x12.
C21_Witness ==
  /\ Has(canvasRefs, 0)
  /\ <<canvasRefs[0].w, canvasRefs[0].h>> = <<8, 8>>
  /\ Has(annotationsRef, 0)
  /\ annotationsRef[0] # <<>>
  /\ annotationsRef[0][1].type = "blur"
  /\ annotationsRef[0][1].data.endX = 12
  /\ annotationsRef[0][1].data.endY = 10

\* C22: while no tool is selected the gesture state is Idle, and a press, a
\* move or a release changes neither the gesture state nor the annotation
\* store.
C22_InactiveWithoutTool ==
  /\ [](activeTool = "none"
          => (isDrawing = FALSE /\ startCoords = Null /\ currentCoords = Null))
  /\ [][(/\ activeTool = "none"
         /\ \/ lastEvent' = "mouseup"
            \/ \E e \in domPages \cup {NoPage} : \E pt \in SyncPoints :
                 MouseDown(e, pt) \/ MouseMove(e, pt))
          => (annotationsRef' = annotationsRef /\ UNCHANGED gestureVars)]_vars

\* what a canvas shows starts with bitmap px
ShowsFirst(px, shown) == Len(px) <= Len(shown) /\ SubSeq(shown, 1, Len(px)) = px

\* C23: while an export runs, its loop moves to higher page indices only;
\* the bitmap taken for a page is what the page's canvas shows when the loop
\* reaches the page, and it shows every annotation stored for the page by
\* then; the layer merged onto the page is that bitmap, whatever was stored
\* or drawn since; and the layers of the other pages stay as they are.
C23_PerPageSnapshot ==
  [][/\ (ExportRunning /\ expI' # expI) => expI' > expI
     /\ (expPc' = "raster" /\ (expPc # "raster" \/ expI' # expI))
          => /\ expRaster' = canvasRefs'[expI'].px
             /\ ShowsFirst(Replay(<<>>, PageAnnotations(annotationsRef', expI')), expRaster')
     /\ \A j \in DOMAIN expDoc :
          ExportRunning
            => expDoc'[j] = IF j = expI /\ expPc = "embed" /\ expPc' \notin {"embed", "failed"}
                              THEN <<expRaster>>
                              ELSE expDoc[j]]_vars

\* C23 witness: the export has ended; page 0 had no annotation when the loop
\* passed it and got no layer, and the store now holds a blur region for it,
\* committed while the export was running.
C23_Witness ==
  /\ expPc = "done"
  /\ exports = 1
  /\ ~expSeen[0]
  /\ expDoc[0] = <<>>
  /\ Has(annotationsRef, 0)
  /\ annotationsRef[0] # <<>>
  /\ annotationsRef[0][1].type = "blur"

\* point <<x, y>> lies in the pixel box of canvas
InBox(x, y, canvas) == 0 <= x /\ x <= canvas.w /\ 0 <= y /\ y <= canvas.h

\* every coordinate of the payload of annotation lies in the box of canvas
PayloadInBox(annotation, canvas) ==
  IF annotation.type = "blur"
    THEN /\ InBox(annotation.data.startX, annotation.data.startY, canvas)
         /\ InBox(annotation.data.endX, annotation.data.endY, canvas)
  ELSE IF annotation.type = "erase"
    THEN \A k \in 1..Len(annotation.data.path) :
           InBox(annotation.data.path[k][1], annotation.data.path[k][2], canvas)
  ELSE InBox(annotation.data.x, annotation.data.y, canvas)

\* C24: when a step writes a record, or a point of a record, into the
\* sequence of a page, every coordinate of that record lies in the pixel box
\* the page's canvas has at that moment.
C24_RecordedPointsInSurface ==
  [][\A i \in DOMAIN annotationsRef' \cap DOMAIN canvasRefs' :
       \A k \in 1..Len(annotationsRef'[i]) :
         (k > Len(PageAnnotations(annotationsRef, i))
            \/ annotationsRef'[i][k] # PageAnnotations(annotationsRef, i)[k])
           => PayloadInBox(annotationsRef'[i][k], canvasRefs'[i])]_vars

\* C25: in every reachable state each page index with a non-empty annotation
\* sequence has a canvas, and each page index with a context has a canvas.
C25_AnnotationsOnlyWithSurface ==
  /\ {i \in DOMAIN annotationsRef : annotationsRef[i] # <<>>} \subseteq DOMAIN canvasRefs
  /\ contextRefs \subseteq DOMAIN canvasRefs

\* C25 witness: page index 1 lost its canvas, its context and its annotation
\* sequence when it vanished, and index 0 has a canvas, a context and a
\* stored record.
C25_Witness ==
  /\ step.discarded = {1}
  /\ DOMAIN canvasRefs = {0}
  /\ contextRefs = {0}
  /\ DOMAIN annotationsRef = {0}
  /\ annotationsRef[0] # <<>>

\* C26: once the cleanup of PdfViewerDisplay has run, no step attaches the
\* observer and no step calls onPageContainerRefsChange, also when a poll
\* retry was pending at the cleanup.
C26_NoAttachAfterTeardown ==
  [][tornDown => (~observing' /\ ~step'.emitted)]_vars

\* C27: while the observer is attached, for every index of the mapping the
\* container PdfEditor holds is a container that is mounted and carries that
\* index.
C27_HandlesAreMounted ==
  observing
    => \A i \in DOMAIN pageContainerRefs :
         /\ pageContainerRefs[i] \in domPages
         /\ ViewerPageIndex(pageContainerRefs[i]) = <<i>>

====
